---- MODULE Spec2Model ----
(***************************************************************************)
(* Model of dataset_gui.py: InteractivePlotApp of the "Ambiguous           *)
(* Resonances" dataset viewer.  The state is the widgets of the two tabs   *)
(* (15N and 13C), the matplotlib axes the update_plot handlers draw on,    *)
(* the canvas, the plot_ready flag and the update_plot calls suspended in  *)
(* the modal "Cannot divide by zero" message box.                          *)
(*                                                                         *)
(* Python floats are modelled as exact rationals (plus nan and inf, which  *)
(* numpy returns for a division by zero); rounding is not modelled.        *)
(***************************************************************************)
EXTENDS Integers, Sequences, FiniteSets, TLC

\* ------------------------------------------------------------ numbers

RECURSIVE Gcd(_, _)
Gcd(a, b) == IF b = 0 THEN a ELSE Gcd(b, a % b)

Abs(a) == IF a < 0 THEN -a ELSE a

\* A float: [n, d] with d > 0 in lowest terms; nan and inf have d = 0.
NaN == [n |-> 0, d |-> 0]
Inf == [n |-> 1, d |-> 0]

Reduced(a, b, g) ==
    IF b < 0 THEN [n |-> -(a \div g), d |-> -(b \div g)]
    ELSE [n |-> a \div g, d |-> b \div g]

\* a / b for integers a and b # 0
Rat(a, b) == Reduced(a, b, Gcd(Abs(a), Abs(b)))

IsNum(r) == r.d # 0

RatMul(p, q) ==
    IF ~IsNum(p) \/ ~IsNum(q) THEN NaN ELSE Rat(p.n * q.n, p.d * q.d)

\* numpy float division: x / 0 is nan for x = 0 and inf otherwise (a warning,
\* not an exception).
RatDiv(p, q) ==
    IF ~IsNum(p) \/ ~IsNum(q) THEN NaN
    ELSE IF q.n = 0 THEN (IF p.n = 0 THEN NaN ELSE Inf)
    ELSE Rat(p.n * q.d, p.d * q.n)

RatAdd(p, q) ==
    IF ~IsNum(p) \/ ~IsNum(q) THEN NaN ELSE Rat(p.n * q.d + q.n * p.d, p.d * q.d)

RatSub(p, q) ==
    IF ~IsNum(p) \/ ~IsNum(q) THEN NaN ELSE Rat(p.n * q.d - q.n * p.d, p.d * q.d)

RatLess(p, q) == p.n * q.d < q.n * p.d

Zero == [n |-> 0, d |-> 1]
One == [n |-> 1, d |-> 1]
Two == [n |-> 2, d |-> 1]

\* The smaller / larger of two floats; nan propagates.
Min2(p, q) == IF ~IsNum(p) \/ ~IsNum(q) THEN NaN ELSE IF RatLess(q, p) THEN q ELSE p
Max2(p, q) == IF ~IsNum(p) \/ ~IsNum(q) THEN NaN ELSE IF RatLess(p, q) THEN q ELSE p

\* min() / np.max() of a non-empty one-dimensional array.
RECURSIVE SeqMin(_)
SeqMin(s) == IF Len(s) = 1 THEN s[1] ELSE Min2(s[1], SeqMin(Tail(s)))

RECURSIVE SeqMax(_)
SeqMax(s) == IF Len(s) = 1 THEN s[1] ELSE Max2(s[1], SeqMax(Tail(s)))

\* ------------------------------------------------- text <-> number

Digits == <<"0", "1", "2", "3", "4", "5", "6", "7", "8", "9">>

DigitVal(c) == CHOOSE k \in 0..9 : Digits[k + 1] = c

\* str() of a non-negative integer.
RECURSIVE NatStr(_)
NatStr(k) == IF k < 10 THEN <<Digits[k + 1]>>
             ELSE NatStr(k \div 10) \o <<Digits[(k % 10) + 1]>>

\* str() of an integer.
IntStr(k) == IF k < 0 THEN <<"-">> \o NatStr(-k) ELSE NatStr(k)

RECURSIVE ParseNat(_)
ParseNat(s) == IF Len(s) = 0 THEN 0
               ELSE 10 * ParseNat(SubSeq(s, 1, Len(s) - 1)) + DigitVal(s[Len(s)])

\* int() of the text of an integer.
ParseInt(s) == IF s[1] = "-" THEN -ParseNat(Tail(s)) ELSE ParseNat(s)

\* str() / repr() of a non-negative float with one decimal place: "5.0", "12.5".
FloatStr(r) ==
    NatStr(r.n \div r.d) \o <<".">> \o NatStr(((r.n * 10) \div r.d) % 10)

DotAt(s) == CHOOSE k \in 1..Len(s) : s[k] = "."

\* The value of the digits whole "." fr (fr of one digit).
Decimal(whole, fr) == Rat(ParseNat(whole) * 10 + ParseNat(fr), 10)

SplitAt(s, k) == Decimal(SubSeq(s, 1, k - 1), SubSeq(s, k + 1, Len(s)))

\* float() of the text of a non-negative number with one decimal place.
ParseFloat(s) == SplitAt(s, DotAt(s))

\* np.unique: the distinct values in ascending order.
LeastRat(S) == CHOOSE x \in S : \A y \in S : ~RatLess(y, x)

RECURSIVE SortedRats(_)
SortedRats(S) == IF S = {} THEN <<>> ELSE <<LeastRat(S)>> \o SortedRats(S \ {LeastRat(S)})

LeastInt(S) == CHOOSE x \in S : \A y \in S : x <= y

RECURSIVE SortedInts(_)
SortedInts(S) == IF S = {} THEN <<>> ELSE <<LeastInt(S)>> \o SortedInts(S \ {LeastInt(S)})

Range(s) == {s[i] : i \in 1..Len(s)}

\* ------------------------------------------------------------ dataset
\* The HDF5 file and the experimental files are inputs of the program; the
\* tables below are a small instance of them.

\* Length of the canonical axis (1000 in the program).
NPoints == 3

\* The "data" column of simulation row k: NPoints probabilities in [0, 1).
Data(k) == [i \in 1..NPoints |-> Rat((i * k) % (k + 2), k + 2)]

N15Row(ms, order, field, angle, k) ==
    [ms |-> ms, order |-> order, field |-> field, field_angle |-> angle, data |-> Data(k)]

C13Row(ms, order, field, fam, k) ==
    [ms |-> ms, order |-> order, field |-> field, fam |-> fam, data |-> Data(k)]

\* n15_group.n15_table: not every (ms, order, field, field_angle) was simulated.
N15_table ==
    << N15Row(-1, 8, Rat(5, 1), Zero, 1),
       N15Row(1, 8, Rat(5, 1), Zero, 2),
       N15Row(-1, 8, Zero, Zero, 3),
       N15Row(-1, 8, Rat(5, 1), Rat(10, 1), 4),
       N15Row(-1, 16, Rat(5, 1), Zero, 5) >>

\* c13_group.c13_table: not every (ms, order, field, fam) was simulated.
C13_table ==
    << C13Row(-1, 8, Rat(5, 1), "A", 6),
       C13Row(-1, 8, Rat(5, 1), "B", 7),
       C13Row(1, 8, Rat(5, 1), "A", 8),
       C13Row(-1, 8, Zero, "B", 9),
       C13Row(-1, 16, Rat(5, 1), "B", 10) >>

\* val_group.gyro_table: substance "H-1" is <<"H", "1">>, value in MHz/T.
gyro_table ==
    << [substance |-> <<"H", "1">>, value |-> Rat(213, 5)],
       [substance |-> <<"N", "15">>, value |-> Rat(-43, 10)] >>

\* val_group.cfam_table
cfam_table == << [fam |-> "A"], [fam |-> "B"] >>

\* The experimental files on disk.  numeric: every field of the text parses
\* as a number; rows: its rows of tab-separated numbers.
Files ==
    [p \in {"good.txt", "flat.txt", "one.txt", "bad.txt"} |->
        CASE p = "good.txt" ->
               [numeric |-> TRUE,
                rows |-> << <<Rat(1, 10), Rat(1, 5)>>,
                            <<Rat(1, 2), Rat(7, 10)>>,
                            <<One, Rat(2, 5)>> >>]
          [] p = "flat.txt" ->
               [numeric |-> TRUE,
                rows |-> << <<Rat(1, 10), Rat(3, 10)>>,
                            <<Rat(1, 2), Rat(3, 10)>> >>]
          [] p = "one.txt" ->
               [numeric |-> TRUE, rows |-> << <<Rat(1, 10), Rat(3, 10)>> >>]
          [] OTHER -> [numeric |-> FALSE, rows |-> <<>>]]

\* ---------------------------------------------------------- load_data

\* np.linspace(0.05, 3, NPoints), microseconds
Step == RatDiv(RatSub([n |-> 3, d |-> 1], [n |-> 1, d |-> 20]), [n |-> NPoints - 1, d |-> 1])

Linspace ==
    [i \in 1..NPoints |-> RatAdd([n |-> 1, d |-> 20], RatMul([n |-> i - 1, d |-> 1], Step))]

\* 1 / 2 / t
HalfInverse(t) == [i \in 1..Len(t) |-> RatDiv(RatDiv(One, Two), t[i])]

\* f"<sup>{temp_part[1]}</sup>{temp_part[0]}" of k.split("-")
GyroKey(substance) == <<"<sup>", substance[2], "</sup>", substance[1]>>

\* The keys of the dict built from the table, in insertion order (the
\* substances of the table are distinct).
GyroKeys == [i \in 1..Len(gyro_table) |-> GyroKey(gyro_table[i].substance)]

\* The distinct families (the table lists them in ascending order).
FirstOfFam(i) == \A j \in 1..(i - 1) : cfam_table[j].fam # cfam_table[i].fam
FamRows == SortedInts({i \in 1..Len(cfam_table) : FirstOfFam(i)})
UniqueFam == [k \in 1..Len(FamRows) |-> cfam_table[FamRows[k]].fam]

\* The fields load_data sets; gyro_keys and gyro_value are the keys and the
\* values of self.gyromagnetic_ratios.
load_data ==
    [N15_table |-> N15_table,
     theta |-> SortedRats({N15_table[i].field_angle : i \in 1..Len(N15_table)}),
     B0_n |-> SortedRats({N15_table[i].field : i \in 1..Len(N15_table)}),
     M_n |-> SortedInts({N15_table[i].order : i \in 1..Len(N15_table)}),
     C13_table |-> C13_table,
     B0_C |-> SortedRats({C13_table[i].field : i \in 1..Len(C13_table)}),
     M_C |-> SortedInts({C13_table[i].order : i \in 1..Len(C13_table)}),
     tau |-> Linspace,
     freq |-> HalfInverse(Linspace),
     gyro_keys |-> GyroKeys,
     gyro_value |-> [i \in 1..Len(gyro_table) |-> gyro_table[i].value],
     fam |-> UniqueFam]

\* key.removeprefix("<sup>").split("</sup>")
gyro_key_map(key) == <<key[2], key[4]>>

\* ------------------------------------------------------------ widgets

\* The items set_tab_15N and set_tab_13C give the combo boxes and the lists,
\* from the fields d of load_data.
WidgetItems(d) ==
    [ms |-> << <<"-", "1">>, <<"1">> >>,
     M_N |-> [i \in 1..Len(d.M_n) |-> IntStr(d.M_n[i])],
     B0_N |-> [i \in 1..Len(d.B0_n) |-> FloatStr(d.B0_n[i])],
     theta |-> [i \in 1..Len(d.theta) |-> FloatStr(d.theta[i])],
     M_C |-> [i \in 1..Len(d.M_C) |-> IntStr(d.M_C[i])],
     B0_C |-> [i \in 1..Len(d.B0_C) |-> FloatStr(d.B0_C[i])],
     gyro |-> d.gyro_keys,
     families |-> d.fam]

\* plt.rcParams["axes.prop_cycle"]: the default cycle has ten colours.
NColors == 10
colors == [i \in 1..NColors |-> i - 1]

unit_list ==
    <<[n |-> 1000, d |-> 1], [n |-> 1, d |-> 1], [n |-> 1, d |-> 1000], [n |-> 1, d |-> 1000000]>>
unit_label_t == <<"tau (ns)", "tau (us)", "tau (ms)", "tau (s)">>
unit_label_f == <<"f (GHz)", "f (MHz)", "f (kHz)", "f (Hz)">>

NotAvailable == "Simulation results are not available yet for these values"
ArXivRef == "arXiv:2407.09411 [quant-ph]"

\* Sequences over S without repetition: the selections of a list widget, in
\* the order the items were selected.
RECURSIVE Selections(_)
Selections(S) ==
    {<<>>} \cup UNION {{<<x>> \o t : t \in Selections(S \ {x})} : x \in S}

VARIABLES
    data,       \* the fields load_data set: the tables, the axes, the constants
    items,      \* the items of the combo boxes and the lists
    wN,         \* the widgets of the 15N tab
    wC,         \* the widgets of the 13C tab
    tab,        \* self.tab_widget.currentIndex()
    plot_ready, \* self.plot_ready
    ax,         \* self.ax
    canvas,     \* the axes as self.canvas.draw() last rendered them
    stack,      \* the update_plot calls waiting in B0err.exec(), innermost last
    last        \* the most recent update_plot call: which one (fn), the widget
                \* values it read (w), what called it (by: "click", "resize"),
                \* how far it got (out: "finished", "raised", "msgbox") and
                \* whether it showed the message box

vars == <<data, items, wN, wC, tab, plot_ready, ax, canvas, stack, last>>

\* --------------------------------------------------------------- axes

\* self.ax after ax.clear(): no artist, no label.
ClearedAx ==
    [lines |-> <<>>, texts |-> <<>>, scatter |-> <<>>, vlines |-> <<>>,
     xlabel |-> "", ylabel |-> "", title |-> <<>>, legend |-> FALSE]

\* self.ax as set_right_layout leaves it.
InitialAx == [ClearedAx EXCEPT !.xlabel = "tau (us)", !.ylabel = "Transition Probability"]

AxText(a, s) == [a EXCEPT !.texts = Append(@, s)]
AxPlot(a, x, y, label) == [a EXCEPT !.lines = Append(@, [x |-> x, y |-> y, label |-> label])]
AxScatter(a, x, y) == [a EXCEPT !.scatter = Append(@, [x |-> x, y |-> y, label |-> "Exp"])]
AxVline(a, x, label, color) ==
    [a EXCEPT !.vlines = Append(@, [x |-> x, label |-> label, color |-> color])]

\* The value of the local XY8 of update_plot_N / update_plot_C.
XY8Unbound == [st |-> "unbound", v |-> <<>>]
XY8Rows(rows) == [st |-> "rows", v |-> rows]
XY8Data(d) == [st |-> "data", v |-> d]

\* np.max(XY8) raises for an unassigned local and for the (empty) structured
\* array read_where returned; otherwise it is the maximum of the data series.
MaxRaises(XY8) == XY8.st # "data"

\* np.loadtxt(path, delimiter="\t"): raises ValueError on a field that is not a
\* number; a file of one row gives a one-dimensional array.
LoadtxtRaises(path) == ~Files[path].numeric
LoadtxtNdim(path) == IF Len(Files[path].rows) = 1 THEN 1 ELSE 2

\* exp_data[:, c] of a two-dimensional array (c is 0-based).
Column(path, c) == [i \in 1..Len(Files[path].rows) |-> Files[path].rows[i][c + 1]]

\* numpy's elementwise v - x and v * x / y
VecSub(v, x) == [i \in 1..Len(v) |-> RatSub(v[i], x)]
VecMulDiv(v, x, y) == [i \in 1..Len(v) |-> RatDiv(RatMul(v[i], x), y)]

\* The state of a call of update_plot_N / update_plot_C between its parts: the
\* axes, the local XY8, and out: "ok" (running), "raised" (an exception left
\* the handler), "msgbox" (B0err.exec() is showing), "finished".

\* ------------------------------------------------------ update_plot_N
\* A widget record w of the 15N tab: ms, M, B0, theta (current indices of the
\* combo boxes, 1-based), gyro (the selected items' keys), chk (the overlay
\* check box), file (expt_filename_N), radio2 (plot against f), unit (the
\* checked id of the unit buttons, 0..3).

selected_ms_N(w) == ParseInt(items.ms[w.ms])
selected_M_N(w) == ParseInt(items.M_N[w.M])
selected_B0_N(w) == ParseFloat(items.B0_N[w.B0])
selected_theta_N(w) == items.theta[w.theta]

\* The literals of the condition string
\* f"(order=={M}) & (field=={B0}) & (field_angle=={theta}) & (ms=={ms})".
Condition_N(w) ==
    [order |-> IntStr(selected_M_N(w)), field |-> FloatStr(selected_B0_N(w)),
     field_angle |-> selected_theta_N(w), ms |-> IntStr(selected_ms_N(w))]

\* The condition with its literals parsed.
Parsed_N(c) ==
    [order |-> ParseInt(c.order), field |-> ParseFloat(c.field),
     field_angle |-> ParseFloat(c.field_angle), ms |-> ParseInt(c.ms)]

\* A read_where that leaves (ms==...) out of the condition.
Match_N_any_ms(r, q) ==
    /\ r.order = q.order
    /\ r.field = q.field
    /\ r.field_angle = q.field_angle

Match_N(r, q) ==
    /\ r.order = q.order
    /\ r.field = q.field
    /\ r.field_angle = q.field_angle
    /\ r.ms = q.ms

Where_N(q) == SelectSeq(data.N15_table, LAMBDA r : Match_N(r, q))

\* self.N15_table.read_where(condition): the rows that satisfy it, in table order.
read_where_N(c) == Where_N(Parsed_N(c))

\* An axis that multiplies the frequency by the unit as it does the time.
x_axis_N_mul(radio2, u) ==
    [i \in 1..Len(data.tau) |->
        IF radio2 THEN RatMul(data.freq[i], unit_list[u + 1])
        ELSE RatMul(data.tau[i], unit_list[u + 1])]

\* self.freq / unit_list[u] if radio2 else self.tau * unit_list[u]
x_axis_N(radio2, u) ==
    [i \in 1..Len(data.tau) |->
        IF radio2 THEN RatDiv(data.freq[i], unit_list[u + 1])
        ELSE RatMul(data.tau[i], unit_list[u + 1])]

\* A handler that draws on the axes as the call before left them.
Plot_N_stale(w, rows) ==
    IF Len(rows) = 0
    THEN [ax |-> AxText(ax, NotAvailable), XY8 |-> XY8Rows(rows), out |-> "ok"]
    ELSE [ax |-> AxPlot(ax, x_axis_N(w.radio2, w.unit), rows[1].data, "Sim"),
          XY8 |-> XY8Data(rows[1].data), out |-> "ok"]

\* Lines 630-654: the placeholder, or XY8 = XY8["data"][0] and the curve.
Plot_N(w, rows) ==
    IF Len(rows) = 0
    THEN [ax |-> AxText(ClearedAx, NotAvailable), XY8 |-> XY8Rows(rows), out |-> "ok"]
    ELSE [ax |-> AxPlot(ClearedAx, x_axis_N(w.radio2, w.unit), rows[1].data, "Sim"),
          XY8 |-> XY8Data(rows[1].data), out |-> "ok"]

\* Lines 606-654: clear the axes, query the table, draw.
Curve_N(w) == Plot_N(w, read_where_N(Condition_N(w)))

\* p = exp_data[:, 1] - min(exp_data[:, 1])
Baseline_N(path) == VecSub(Column(path, 1), SeqMin(Column(path, 1)))

\* p * np.max(XY8) / np.max(p)
Rescale_N(path, XY8) == VecMulDiv(Baseline_N(path), SeqMax(XY8.v), SeqMax(Baseline_N(path)))

\* An overlay whose x-values are converted to the unit like the time axis.
Overlay_N_converted(s, w) ==
    IF w.chk /\ w.file # ""
    THEN IF \/ LoadtxtRaises(w.file)
            \/ LoadtxtNdim(w.file) = 1
            \/ MaxRaises(s.XY8)
         THEN [s EXCEPT !.out = "raised"]
         ELSE [s EXCEPT !.ax = AxScatter(@, VecMulDiv(Column(w.file, 0), unit_list[w.unit + 1], One),
                                         Rescale_N(w.file, s.XY8))]
    ELSE s

\* Lines 656-672: the experimental data.
Overlay_N(s, w) ==
    IF w.chk /\ w.file # ""
    THEN IF \/ LoadtxtRaises(w.file)
            \/ LoadtxtNdim(w.file) = 1
            \/ MaxRaises(s.XY8)
         THEN [s EXCEPT !.out = "raised"]
         ELSE [s EXCEPT !.ax = AxScatter(@, Column(w.file, 0), Rescale_N(w.file, s.XY8))]
    ELSE s

\* A position that leaves the unit of the axis out of the ratio.
Pos_N_unscaled(g, u, B0) ==
    RatDiv(One, RatMul(RatMul(RatMul(Two, g), B0), [n |-> 1, d |-> 1000]))

\* pos of lines 679-681
Pos_N(g, u, B0) ==
    RatDiv(One, RatMul(RatMul(RatDiv(RatMul(Two, g), unit_list[u + 1]), B0),
                       [n |-> 1, d |-> 1000]))

\* pos of lines 679-683
MarkerPos_N(g, u, B0, radio2) ==
    IF radio2 THEN RatDiv(RatDiv(One, Two), Pos_N(g, u, B0)) ELSE Pos_N(g, u, B0)

\* self.gyromagnetic_ratios[key], MHz/T
gyromagnetic_ratios(key) ==
    data.gyro_value[CHOOSE j \in 1..Len(data.gyro_keys) : data.gyro_keys[j] = key]

\* The axvline of lines 685-691 for the item val at index idx (0-based).
MarkerLine_N(a, w, B0, idx, val) ==
    AxVline(a, MarkerPos_N(gyromagnetic_ratios(val), w.unit, B0, w.radio2),
            gyro_key_map(val), colors[idx + 2])

\* The for loop of lines 676-691 from index idx on; colors[idx + 1] raises
\* IndexError past the end of the palette.
RECURSIVE MarkerLoop_N(_, _, _, _)
MarkerLoop_N(s, w, B0, idx) ==
    IF idx >= Len(w.gyro) THEN s
    ELSE IF idx + 1 >= Len(colors) THEN [s EXCEPT !.out = "raised"]
    ELSE MarkerLoop_N([s EXCEPT !.ax = MarkerLine_N(@, w, B0, idx, w.gyro[idx + 1])],
                      w, B0, idx + 1)

MarkersAt_N(s, w, B0) ==
    IF B0 # Zero THEN MarkerLoop_N(s, w, B0, 0)
    ELSE IF B0 = Zero /\ Len(w.gyro) # 0 THEN [s EXCEPT !.out = "msgbox"]
    ELSE s

\* Lines 674-696: the vertical lines, or the message box.
Markers_N(s, w) == IF s.out = "ok" THEN MarkersAt_N(s, w, selected_B0_N(w)) ELSE s

\* Lines 698-720: the labels, the title, the arXiv reference, the legend.  w
\* holds the locals read at the start of the call; radio2 is read again here.
Finish_N(a, w, radio2) ==
    [a EXCEPT !.xlabel = IF radio2 THEN unit_label_f[w.unit + 1]
                         ELSE unit_label_t[w.unit + 1],
              !.ylabel = "Transition Probability",
              !.title = <<IntStr(selected_M_N(w)), FloatStr(selected_B0_N(w)),
                          selected_theta_N(w)>>,
              !.texts = Append(@, ArXivRef),
              !.legend = TRUE]

End_N(s, w) ==
    IF s.out = "ok" THEN [s EXCEPT !.ax = Finish_N(@, w, w.radio2), !.out = "finished"]
    ELSE s

\* update_plot_N up to its end, an exception, or B0err.exec().
update_plot_N(w) == End_N(Markers_N(Overlay_N(Curve_N(w), w), w), w)

\* ------------------------------------------------------ update_plot_C
\* A widget record w of the 13C tab: ms, M, B0 (indices), fam (the selected
\* families), gyro, chk, file (expt_filename_C), radio2, unit.

selected_ms_C(w) == ParseInt(items.ms[w.ms])
selected_M_C(w) == ParseInt(items.M_C[w.M])
selected_B0_C(w) == ParseFloat(items.B0_C[w.B0])

\* The literals of
\* f"(order=={M}) & (fam==b'{fam}') & (field=={B0}) & (ms=={ms})".
Condition_C(w, f) ==
    [order |-> IntStr(selected_M_C(w)), fam |-> f,
     field |-> FloatStr(selected_B0_C(w)), ms |-> IntStr(selected_ms_C(w))]

Parsed_C(c) ==
    [order |-> ParseInt(c.order), fam |-> c.fam,
     field |-> ParseFloat(c.field), ms |-> ParseInt(c.ms)]

Match_C(r, q) ==
    /\ r.order = q.order
    /\ r.fam = q.fam
    /\ r.field = q.field
    /\ r.ms = q.ms

Where_C(q) == SelectSeq(data.C13_table, LAMBDA r : Match_C(r, q))

\* self.C13_table.read_where(condition)
read_where_C(c) == Where_C(Parsed_C(c))

x_axis_C(radio2, u) ==
    [i \in 1..Len(data.tau) |->
        IF radio2 THEN RatDiv(data.freq[i], unit_list[u + 1])
        ELSE RatMul(data.tau[i], unit_list[u + 1])]

\* Lines 757-780 for family f: the placeholder, or the curve.
Plot_C(s, w, f, rows) ==
    IF Len(rows) = 0
    THEN [s EXCEPT !.ax = AxText(@, NotAvailable), !.XY8 = XY8Rows(rows)]
    ELSE [s EXCEPT !.ax = AxPlot(@, x_axis_C(w.radio2, w.unit), rows[1].data, f),
                   !.XY8 = XY8Data(rows[1].data)]

\* One iteration of the loop of lines 753-780.
FamStep_C(s, w, f) == Plot_C(s, w, f, read_where_C(Condition_C(w, f)))

\* A loop that a family without data ends.
RECURSIVE FamLoop_C_stop(_, _, _)
FamLoop_C_stop(s, w, k) ==
    IF k > Len(w.fam) THEN s
    ELSE IF Len(read_where_C(Condition_C(w, w.fam[k]))) = 0 THEN FamStep_C(s, w, w.fam[k])
    ELSE FamLoop_C_stop(FamStep_C(s, w, w.fam[k]), w, k + 1)

\* The loop from the k-th selected family on.
RECURSIVE FamLoop_C(_, _, _)
FamLoop_C(s, w, k) ==
    IF k > Len(w.fam) THEN s ELSE FamLoop_C(FamStep_C(s, w, w.fam[k]), w, k + 1)

\* Lines 732-780.
Curve_C(w) == FamLoop_C([ax |-> ClearedAx, XY8 |-> XY8Unbound, out |-> "ok"], w, 1)

Baseline_C(path) == VecSub(Column(path, 1), SeqMin(Column(path, 1)))

Rescale_C(path, XY8) == VecMulDiv(Baseline_C(path), SeqMax(XY8.v), SeqMax(Baseline_C(path)))

\* Lines 782-797.
Overlay_C(s, w) ==
    IF w.chk /\ w.file # ""
    THEN IF \/ LoadtxtRaises(w.file)
            \/ LoadtxtNdim(w.file) = 1
            \/ MaxRaises(s.XY8)
         THEN [s EXCEPT !.out = "raised"]
         ELSE [s EXCEPT !.ax = AxScatter(@, Column(w.file, 0), Rescale_C(w.file, s.XY8))]
    ELSE s

\* pos of lines 804-806
Pos_C(g, u, B0) ==
    RatDiv(One, RatMul(RatMul(RatDiv(RatMul(Two, g), unit_list[u + 1]), B0),
                       [n |-> 1, d |-> 1000]))

\* A position that stays a time when the plot is against f.
MarkerPos_C_time(g, u, B0, radio2) == Pos_C(g, u, B0)

\* pos of lines 804-808
MarkerPos_C(g, u, B0, radio2) ==
    IF radio2 THEN RatDiv(RatDiv(One, Two), Pos_C(g, u, B0)) ELSE Pos_C(g, u, B0)

MarkerLine_C(a, w, B0, idx, val) ==
    AxVline(a, MarkerPos_C(gyromagnetic_ratios(val), w.unit, B0, w.radio2),
            gyro_key_map(val), colors[idx + 2])

RECURSIVE MarkerLoop_C(_, _, _, _)
MarkerLoop_C(s, w, B0, idx) ==
    IF idx >= Len(w.gyro) THEN s
    ELSE IF idx + 1 >= Len(colors) THEN [s EXCEPT !.out = "raised"]
    ELSE MarkerLoop_C([s EXCEPT !.ax = MarkerLine_C(@, w, B0, idx, w.gyro[idx + 1])],
                      w, B0, idx + 1)

MarkersAt_C(s, w, B0) ==
    IF B0 # Zero THEN MarkerLoop_C(s, w, B0, 0)
    ELSE IF B0 = Zero /\ Len(w.gyro) # 0 THEN [s EXCEPT !.out = "msgbox"]
    ELSE s

\* Lines 799-821.
Markers_C(s, w) == IF s.out = "ok" THEN MarkersAt_C(s, w, selected_B0_C(w)) ELSE s

\* Lines 823-845.
Finish_C(a, w, radio2) ==
    [a EXCEPT !.xlabel = IF radio2 THEN unit_label_f[w.unit + 1]
                         ELSE unit_label_t[w.unit + 1],
              !.ylabel = "Transition Probability",
              !.title = <<IntStr(selected_M_C(w)), FloatStr(selected_B0_C(w))>>,
              !.texts = Append(@, ArXivRef),
              !.legend = TRUE]

End_C(s, w) ==
    IF s.out = "ok" THEN [s EXCEPT !.ax = Finish_C(@, w, w.radio2), !.out = "finished"]
    ELSE s

\* update_plot_C up to its end, an exception, or B0err.exec().
update_plot_C(w) == End_C(Markers_C(Overlay_C(Curve_C(w), w), w), w)

\* ------------------------------------------------------ state machine

\* The deepest nesting of message boxes the model follows.
MaxNested == 2

FileNames == DOMAIN Files

\* The settings of the overlay: the check box and expt_filename (an unchecked
\* box leaves the file unread, whatever it is).
Overlays ==
    {o \in BOOLEAN \X (FileNames \cup {""}) : o[1] \/ o[2] \in {"", "good.txt"}}

\* The 15N tab's widgets with the unit button in units and the overlay
\* settings in overlays.
WidgetsN(units, overlays) ==
    {w \in [ms : 1..Len(items.ms), M : 1..Len(items.M_N), B0 : 1..Len(items.B0_N),
            theta : 1..Len(items.theta), gyro : Selections(Range(items.gyro)),
            chk : BOOLEAN, file : FileNames \cup {""}, radio2 : BOOLEAN, unit : units] :
        <<w.chk, w.file>> \in overlays}

\* The 13C tab with the selections of the 15N tab w and the families f.
SameOnC(w, f) ==
    [ms |-> w.ms, M |-> w.M, B0 |-> w.B0, fam |-> f, gyro |-> w.gyro,
     chk |-> w.chk, file |-> w.file, radio2 |-> w.radio2, unit |-> w.unit]

\* The window after __init__, with the widgets as the user has set them before
\* the first plot: a selection of the 15N tab, the same selection on the 13C
\* tab, and any selection of families.
Setup(units, overlays) ==
    /\ data = load_data
    /\ items = WidgetItems(data)
    /\ wN \in WidgetsN(units, overlays)
    /\ \E f \in Selections(Range(items.families)) : wC = SameOnC(wN, f)
    /\ tab = 0
    /\ plot_ready = FALSE
    /\ ax = InitialAx
    /\ canvas = InitialAx
    /\ stack = <<>>
    /\ last = [fn |-> "none", w |-> <<>>, by |-> "none", out |-> "none", signalled |-> FALSE]

\* The unit buttons as set_tab_15N and set_tab_13C check them (us/MHz); every
\* setting of the overlay.
Init == Setup({1}, Overlays)

\* Every unit button; no overlay, or the overlay of a well-formed file.
InitUnits == Setup(0..3, {<<FALSE, "">>, <<TRUE, "good.txt">>})

\* A call that sets plot_ready however it ends.
Enter_ready(fn, w, by, r) ==
    /\ r.out = "msgbox" => Len(stack) < MaxNested
    /\ ax' = r.ax
    /\ canvas' = IF r.out = "finished" THEN r.ax ELSE canvas
    /\ plot_ready' = TRUE
    /\ stack' = IF r.out = "msgbox" THEN Append(stack, [fn |-> fn, w |-> w, by |-> by])
                ELSE stack
    /\ last' = [fn |-> fn, w |-> w, by |-> by, out |-> r.out, signalled |-> r.out = "msgbox"]
    /\ UNCHANGED <<data, items, wN, wC, tab>>

\* What a call fn of update_plot_N / update_plot_C from the button or from
\* resizeEvent (by) that read the widgets w and got to r leaves: at its end canvas.draw() and plot_ready = True; PySide
\* prints an exception and the event loop goes on; B0err.exec() keeps the call
\* waiting in the modal message box.
Enter(fn, w, by, r) ==
    /\ r.out = "msgbox" => Len(stack) < MaxNested
    /\ ax' = r.ax
    /\ canvas' = IF r.out = "finished" THEN r.ax ELSE canvas
    /\ plot_ready' = (plot_ready \/ r.out = "finished")
    /\ stack' = IF r.out = "msgbox" THEN Append(stack, [fn |-> fn, w |-> w, by |-> by])
                ELSE stack
    /\ last' = [fn |-> fn, w |-> w, by |-> by, out |-> r.out, signalled |-> r.out = "msgbox"]
    /\ UNCHANGED <<data, items, wN, wC, tab>>

Call_N(by) == Enter("N", wN, by, update_plot_N(wN))

Call_C(by) == Enter("C", wC, by, update_plot_C(wC))

\* "Update plot" of the 15N tab; the modal message box blocks the window.
ClickUpdateN == stack = <<>> /\ tab = 0 /\ Call_N("click")

\* "Update plot" of the 13C tab.
ClickUpdateC == stack = <<>> /\ tab = 1 /\ Call_C("click")

\* The user changes the tab.
TabChange ==
    /\ stack = <<>>
    /\ tab' = 1 - tab
    /\ UNCHANGED <<data, items, wN, wC, plot_ready, ax, canvas, stack, last>>

\* resizeEvent: the window system resizes the window.
ResizeEvent ==
    IF plot_ready
    THEN \/ tab = 0 /\ Call_N("resize")
         \/ tab = 1 /\ Call_C("resize")
    ELSE UNCHANGED vars

\* The user closes the innermost message box: B0err.exec() returns and the call
\* that showed it runs to its end.
Return(f) ==
    /\ ax' = IF f.fn = "N" THEN Finish_N(ax, f.w, wN.radio2)
             ELSE Finish_C(ax, f.w, wC.radio2)
    /\ canvas' = ax'
    /\ plot_ready' = TRUE
    /\ stack' = SubSeq(stack, 1, Len(stack) - 1)
    /\ last' = [fn |-> f.fn, w |-> f.w, by |-> f.by, out |-> "finished", signalled |-> TRUE]
    /\ UNCHANGED <<data, items, wN, wC, tab>>

CloseB0err == stack # <<>> /\ Return(stack[Len(stack)])

Next == ClickUpdateN \/ ClickUpdateC \/ TabChange \/ ResizeEvent \/ CloseB0err

Spec == Init /\ [][Next]_vars

SpecUnits == InitUnits /\ [][Next]_vars

\* ------------------------------------------------------------ session
\* A session in which the user changes the widgets between the plots.

\* The window with order 16 and field 5.0 chosen, an experimental file picked
\* on both tabs, and nothing else touched since __init__.
InitSession ==
    /\ data = load_data
    /\ items = WidgetItems(data)
    /\ wN = [ms |-> 1, M |-> 2, B0 |-> 2, theta |-> 1, gyro |-> <<>>,
             chk |-> FALSE, file |-> "good.txt", radio2 |-> FALSE, unit |-> 1]
    /\ wC = [ms |-> 1, M |-> 2, B0 |-> 2, fam |-> <<>>, gyro |-> <<>>,
             chk |-> FALSE, file |-> "good.txt", radio2 |-> FALSE, unit |-> 1]
    /\ tab = 0
    /\ plot_ready = FALSE
    /\ ax = InitialAx
    /\ canvas = InitialAx
    /\ stack = <<>>
    /\ last = [fn |-> "none", w |-> <<>>, by |-> "none", out |-> "none", signalled |-> FALSE]

\* A change of the widgets of the 15N tab, which is the current one.
Set_N(w) ==
    /\ stack = <<>>
    /\ tab = 0
    /\ wN' = w
    /\ UNCHANGED <<data, items, wC, tab, plot_ready, ax, canvas, stack, last>>

\* A change of the widgets of the 13C tab, which is the current one.
Set_C(w) ==
    /\ stack = <<>>
    /\ tab = 1
    /\ wC' = w
    /\ UNCHANGED <<data, items, wN, tab, plot_ready, ax, canvas, stack, last>>

\* The user picks the other item of ms_widget_N.
SelectMs_N == Set_N([wN EXCEPT !.ms = 3 - @])

\* The user ticks or unticks expt_chkbox_N / expt_chkbox_C.
ToggleExpt_N == Set_N([wN EXCEPT !.chk = ~@])
ToggleExpt_C == Set_C([wC EXCEPT !.chk = ~@])

\* "Select all" and "Clear" of the lists: every item of the list in its order,
\* or none.
select_all_gyro_N == Set_N([wN EXCEPT !.gyro = items.gyro])
clear_gyro_N == Set_N([wN EXCEPT !.gyro = <<>>])
select_all_items_C == Set_C([wC EXCEPT !.fam = items.families])
clear_selection_C == Set_C([wC EXCEPT !.fam = <<>>])
select_all_gyro_C == Set_C([wC EXCEPT !.gyro = items.gyro])
clear_gyro_C == Set_C([wC EXCEPT !.gyro = <<>>])

NextSession ==
    \/ ClickUpdateN \/ ClickUpdateC \/ TabChange \/ ResizeEvent
    \/ SelectMs_N \/ ToggleExpt_N \/ ToggleExpt_C
    \/ select_all_gyro_N \/ clear_gyro_N
    \/ select_all_items_C \/ clear_selection_C
    \/ select_all_gyro_C \/ clear_gyro_C

SpecSession == InitSession /\ [][NextSession]_vars

\* ------------------------------------------------------------ palette
\* A dataset whose gyro_table lists as many substances as the palette has
\* colours.

gyro_table_ten ==
    gyro_table \o
    << [substance |-> <<"C", "13">>, value |-> Rat(107, 10)],
       [substance |-> <<"F", "19">>, value |-> Rat(401, 10)],
       [substance |-> <<"P", "31">>, value |-> Rat(86, 5)],
       [substance |-> <<"Si", "29">>, value |-> Rat(-17, 2)],
       [substance |-> <<"Li", "7">>, value |-> Rat(33, 2)],
       [substance |-> <<"B", "11">>, value |-> Rat(137, 10)],
       [substance |-> <<"Na", "23">>, value |-> Rat(113, 10)],
       [substance |-> <<"Al", "27">>, value |-> Rat(111, 10)] >>

\* The fields load_data sets from that dataset.
load_data_ten ==
    [load_data EXCEPT
        !.gyro_keys = [i \in 1..Len(gyro_table_ten) |-> GyroKey(gyro_table_ten[i].substance)],
        !.gyro_value = [i \in 1..Len(gyro_table_ten) |-> gyro_table_ten[i].value]]

\* The selections made by clicking the first k items of a list in its order;
\* the whole list is what "Select all" gives.
Prefixes(s) == {SubSeq(s, 1, k) : k \in 0..Len(s)}

\* The window on that dataset, the labels selected from the top of the list,
\* no overlay.
InitPalette ==
    /\ data = load_data_ten
    /\ items = WidgetItems(data)
    /\ wN \in [ms : 1..Len(items.ms), M : 1..Len(items.M_N), B0 : 1..Len(items.B0_N),
               theta : 1..Len(items.theta), gyro : Prefixes(items.gyro),
               chk : {FALSE}, file : {""}, radio2 : BOOLEAN, unit : {1}]
    /\ \E f \in Selections(Range(items.families)) : wC = SameOnC(wN, f)
    /\ tab = 0
    /\ plot_ready = FALSE
    /\ ax = InitialAx
    /\ canvas = InitialAx
    /\ stack = <<>>
    /\ last = [fn |-> "none", w |-> <<>>, by |-> "none", out |-> "none", signalled |-> FALSE]

SpecPalette == InitPalette /\ [][Next]_vars

\* --------------------------------------------------------- properties
\* The properties are stated over the request of the most recent call (last.w)
\* and the axes it composed (ax), with the selected values taken from the
\* fields of load_data rather than from the text of the widgets.

Count(s, x) == Cardinality({i \in 1..Len(s) : s[i] = x})

Labels(ls) == [i \in 1..Len(ls) |-> ls[i].label]

\* The selection of a request w of the tab fn.
SelMs(w) == IF w.ms = 1 THEN -1 ELSE 1
SelOrder(fn, w) == IF fn = "N" THEN data.M_n[w.M] ELSE data.M_C[w.M]
SelField(fn, w) == IF fn = "N" THEN data.B0_n[w.B0] ELSE data.B0_C[w.B0]

\* The rows of the N15 table that match the request w on all four fields.
N15Hits(w) ==
    {i \in 1..Len(N15_table) :
        /\ N15_table[i].ms = SelMs(w)
        /\ N15_table[i].order = SelOrder("N", w)
        /\ N15_table[i].field = SelField("N", w)
        /\ N15_table[i].field_angle = data.theta[w.theta]}

\* The rows of the C13 table that match the request w for the family f.
C13Hits(w, f) ==
    {i \in 1..Len(C13_table) :
        /\ C13_table[i].ms = SelMs(w)
        /\ C13_table[i].order = SelOrder("C", w)
        /\ C13_table[i].field = SelField("C", w)
        /\ C13_table[i].fam = f}

HasData(w, f) == C13Hits(w, f) # {}

\* C1: after update_plot_N, if a row of the N15 table matches the selection on
\* ms, order, field and angle, the axes hold exactly one simulated curve, its y
\* the whole data series of that row (as long as the canonical axis), and no
\* placeholder; if no row matches, exactly one placeholder and no curve.
C1_N15Lookup ==
    last.fn = "N" =>
        IF N15Hits(last.w) # {}
        THEN /\ Len(ax.lines) = 1
             /\ \E i \in N15Hits(last.w) : ax.lines[1].y = N15_table[i].data
             /\ Len(ax.lines[1].y) = Len(data.tau)
             /\ Count(ax.texts, NotAvailable) = 0
        ELSE /\ ax.lines = <<>>
             /\ Count(ax.texts, NotAvailable) = 1

\* A 15N request at angle 10.0 whose row exists has drawn its curve.
C1_Found ==
    /\ last.fn = "N"
    /\ data.theta[last.w.theta] = Rat(10, 1)
    /\ N15Hits(last.w) # {}
    /\ Len(ax.lines) = 1

\* C2: after update_plot_C, the curves on the axes are, in selection order, one
\* per selected family that has a matching row, labelled with the family and
\* carrying that row's data, and there is one placeholder per selected family
\* without a matching row, wherever in the selection that family stands.
C2_FamilyLookup ==
    last.fn = "C" =>
        /\ Labels(ax.lines) = SelectSeq(last.w.fam, LAMBDA f : HasData(last.w, f))
        /\ \A k \in 1..Len(ax.lines) :
              \E i \in C13Hits(last.w, ax.lines[k].label) :
                  ax.lines[k].y = C13_table[i].data
        /\ Count(ax.texts, NotAvailable) =
              Cardinality({k \in 1..Len(last.w.fam) : ~HasData(last.w, last.w.fam[k])})

\* Families B, A selected where only A has data: one placeholder, then curve A.
C2_LaterFamilyDrawn ==
    /\ last.fn = "C"
    /\ last.w.fam = <<"B", "A">>
    /\ ~HasData(last.w, "B")
    /\ Labels(ax.lines) = <<"A">>
    /\ Count(ax.texts, NotAvailable) = 1

\* The request of the most recent call.
Requested == last.fn # "none"
ZeroField == SelField(last.fn, last.w) = Zero
LabelsSelected == last.w.gyro # <<>>
OverlayOn == last.w.chk /\ last.w.file # ""

\* The overlay file parses as rows of two numbers.
Parses(path) == Files[path].numeric /\ Len(Files[path].rows) >= 1

\* The same request on the other handler's result type, with no label selected.
WithoutLabels(fn, w) ==
    IF fn = "N" THEN update_plot_N([w EXCEPT !.gyro = <<>>])
    ELSE update_plot_C([w EXCEPT !.gyro = <<>>])

\* The markers and the end of the render happen: the call was not left by an
\* exception, it drew one marker per selected label (field # 0) or showed the
\* message box (field = 0 and a label selected), and once it is over the axes
\* are labelled and plot_ready is set.
RestOfRender ==
    /\ last.out # "raised"
    /\ ~ZeroField => Len(ax.vlines) = Len(last.w.gyro)
    /\ (ZeroField /\ LabelsSelected) => last.signalled
    /\ last.out = "finished" => (plot_ready /\ ax.legend /\ ax.ylabel # "")

\* C3: in update_plot_N and update_plot_C the "Cannot divide by zero" message
\* is shown exactly when the selected field is 0 and at least one label is
\* selected; with no label selected there is no marker and no message,
\* whatever the field.
C3_ZeroFieldSignalled ==
    Requested =>
        /\ last.signalled <=> (ZeroField /\ LabelsSelected)
        /\ ~LabelsSelected => (ax.vlines = <<>> /\ ~last.signalled)

\* C4: a request with field 0 and a label selected shows the message, draws no
\* marker, and its curves and placeholders are those of the same request with
\* no label selected.
C4_ZeroFieldRender ==
    (Requested /\ ZeroField /\ LabelsSelected) =>
        /\ last.signalled
        /\ ax.vlines = <<>>
        /\ ax.lines = WithoutLabels(last.fn, last.w).ax.lines
        /\ Count(ax.texts, NotAvailable) =
              Count(WithoutLabels(last.fn, last.w).ax.texts, NotAvailable)

\* The number of simulated curves the request w of the tab fn finds.
FoundCount(fn, w) ==
    IF fn = "N" THEN (IF N15Hits(w) # {} THEN 1 ELSE 0)
    ELSE Cardinality({k \in 1..Len(w.fam) : HasData(w, w.fam[k])})

\* C5: with the overlay enabled and a file that does not parse as numbers, the
\* curves found, the markers (or the message) and the end of the render still
\* happen in the same call.
C5_OverlayFileFailure ==
    (Requested /\ OverlayOn /\ ~Files[last.w.file].numeric) =>
        /\ Len(ax.lines) = FoundCount(last.fn, last.w)
        /\ RestOfRender

\* No simulated curve is there for the overlay to be scaled against: the 15N
\* lookup found nothing; no 13C family is selected or the last one has no data
\* (which covers the selection where none has).
NoReference ==
    IF last.fn = "N" THEN N15Hits(last.w) = {}
    ELSE \/ last.w.fam = <<>>
         \/ ~HasData(last.w, last.w.fam[Len(last.w.fam)])

\* C6: with the overlay enabled, a file that parses and no reference curve,
\* the overlay is left out and the markers and the rest of the render happen.
C6_OverlayWithoutReference ==
    (Requested /\ OverlayOn /\ Parses(last.w.file) /\ NoReference) =>
        /\ ax.scatter = <<>>
        /\ RestOfRender

\* The first selected family with a matching row.
FirstFound(w) == w.fam[CHOOSE k \in 1..Len(w.fam) :
                          /\ HasData(w, w.fam[k])
                          /\ \A j \in 1..(k - 1) : ~HasData(w, w.fam[j])]

DataOf(w, f) == C13_table[CHOOSE i \in C13Hits(w, f) : TRUE].data

\* The signal of the file less its minimum, scaled to the maximum of ref.
Scaled(path, ref) ==
    [i \in 1..Len(Files[path].rows) |->
        RatDiv(RatMul(RatSub(Files[path].rows[i][2], SeqMin(Column(path, 1))), SeqMax(ref)),
               RatSub(SeqMax(Column(path, 1)), SeqMin(Column(path, 1))))]

\* C7: in update_plot_C, with several families selected, the experimental data
\* on the axes is scaled against the curve of the first selected family that
\* has data.
C7_OverlayReference ==
    (/\ last.fn = "C"
     /\ OverlayOn
     /\ Len(last.w.fam) >= 2
     /\ \E k \in 1..Len(last.w.fam) : HasData(last.w, last.w.fam[k])
     /\ ax.scatter # <<>>) =>
        ax.scatter[1].y = Scaled(last.w.file, DataOf(last.w, FirstFound(last.w)))

\* C8: for a file that parses (one row or more, a constant signal included)
\* and a reference curve that was found, the experimental data is on the axes
\* with minimum 0 and the maximum of a simulated curve's y-values.
C8_OverlayRescaling ==
    (Requested /\ OverlayOn /\ Parses(last.w.file) /\ ~NoReference) =>
        /\ Len(ax.scatter) = 1
        /\ SeqMin(ax.scatter[1].y) = Zero
        /\ \E k \in 1..Len(ax.lines) : SeqMax(ax.scatter[1].y) = SeqMax(ax.lines[k].y)

\* The multipliers m = [1e3, 1, 1e-3, 1e-6] of the units ns/GHz .. s/Hz.
Multiplier(u) ==
    CASE u = 0 -> Rat(1000, 1)
      [] u = 1 -> Rat(1, 1)
      [] u = 2 -> Rat(1, 1000)
      [] u = 3 -> Rat(1, 1000000)

\* tau[i] * m[u] against time, (1 / (2 * tau[i])) / m[u] against frequency.
Converted(t, frequency, u) ==
    IF frequency THEN RatDiv(RatDiv(One, RatMul(Two, t)), Multiplier(u))
    ELSE RatMul(t, Multiplier(u))

\* The data series of the rows the request w of the tab fn can have drawn as
\* the curve labelled label.
SeriesOf(fn, w, label) ==
    IF fn = "N" THEN {N15_table[i].data : i \in N15Hits(w)}
    ELSE {C13_table[i].data : i \in C13Hits(w, label)}

\* C9: every simulated curve on the axes has, for unit index u and every point
\* tau[i] of the canonical axis, x[i] = tau[i] * m[u] when plotted against time
\* and (1 / (2 * tau[i])) / m[u] when plotted against frequency, and as y the
\* row's data series as stored.
C9_AxisConversion ==
    Requested =>
        \A k \in 1..Len(ax.lines) :
            /\ ax.lines[k].x =
                  [i \in 1..Len(Linspace) |->
                      Converted(Linspace[i], last.w.radio2, last.w.unit)]
            /\ ax.lines[k].y \in SeriesOf(last.fn, last.w, ax.lines[k].label)

\* A 15N curve plotted against frequency in GHz.
C9_FrequencyGHz ==
    /\ last.fn = "N"
    /\ last.w.radio2
    /\ last.w.unit = 0
    /\ Len(ax.lines) = 1
    /\ ax.lines[1].x[1] = Rat(1, 100)

\* The ratio of the table for the label of a marker.
RatioOf(label) ==
    gyro_table[CHOOSE j \in 1..Len(gyro_table) :
                   gyro_table[j].substance = <<label[2], label[1]>>].value

\* tau = 1 / (2 * (g / m[u]) * B * 1e-3)
MarkerTau(g, u, B) ==
    RatDiv(One, RatMul(RatMul(Two, RatDiv(g, Multiplier(u))), RatMul(B, Rat(1, 1000))))

\* tau against time, 1 / (2 * tau) against frequency.
MarkerAt(g, u, B, frequency) ==
    IF frequency THEN RatDiv(One, RatMul(Two, MarkerTau(g, u, B))) ELSE MarkerTau(g, u, B)

\* C10: for a field B # 0 every marker on the axes stands, for its label's
\* ratio g and the unit index u, at tau = 1 / (2 * (g / m[u]) * B * 1e-3)
\* against time and at 1 / (2 * tau) against frequency, there is one marker per
\* selected label when the call ends, and update_plot_N and update_plot_C
\* compute the same position from the same ratio, unit, field and domain.
C10_MarkerPosition ==
    (Requested /\ ~ZeroField) =>
          /\ \A k \in 1..Len(ax.vlines) :
                /\ ax.vlines[k].label = gyro_key_map(last.w.gyro[k])
                /\ ax.vlines[k].x =
                      MarkerAt(RatioOf(ax.vlines[k].label), last.w.unit,
                               SelField(last.fn, last.w), last.w.radio2)
          /\ last.out = "finished" => Len(ax.vlines) = Len(last.w.gyro)
          /\ \A j \in 1..Len(gyro_table) :
                MarkerPos_N(gyro_table[j].value, last.w.unit,
                            SelField(last.fn, last.w), last.w.radio2)
                    = MarkerPos_C(gyro_table[j].value, last.w.unit,
                                  SelField(last.fn, last.w), last.w.radio2)

\* A 13C request against frequency in kHz with both labels selected and drawn.
C10_TwoMarkersKHz ==
    /\ last.fn = "C"
    /\ last.w.radio2
    /\ last.w.unit = 2
    /\ ~ZeroField
    /\ Len(last.w.gyro) = 2
    /\ Len(ax.vlines) = 2

\* C11: a render has no suspension point: while an update_plot_N or
\* update_plot_C that has started has not finished, no other render starts,
\* so a render is never started while another one waits in the message box.
C11_OneRenderAtATime == Len(stack) <= 1

\* What a render shows: the curves, the placeholders, the experimental data
\* and the markers.
Shown(a) ==
    [lines |-> a.lines, placeholders |-> Count(a.texts, NotAvailable),
     scatter |-> a.scatter, vlines |-> a.vlines]

\* The render of the request w of the tab fn with nothing before it.
Fresh(fn, w) == IF fn = "N" THEN update_plot_N(w) ELSE update_plot_C(w)

C13_MarkerOrder ==
    (Requested /\ ~ZeroField /\ ~OverlayOn) =>
        /\ Len(ax.vlines) = Len(last.w.gyro)
        /\ \A k \in 1..Len(ax.vlines) :
              /\ ax.vlines[k].label = <<last.w.gyro[k][2], last.w.gyro[k][4]>>
              /\ ax.vlines[k].color = (k - 1) + 1

\* The other settings of the unit buttons and the domain.
OtherAxes(w) == {c \in (0..3) \X BOOLEAN : c # <<w.unit, w.radio2>>}

\* C14: the experimental data on the axes has as x-coordinates the first
\* column of the file, for every unit button and both domains; the curves and
\* the markers next to it stand where no other unit or domain would put them.
C14_OverlayXAsIs ==
    (Requested /\ ax.scatter # <<>>) =>
        /\ Len(ax.scatter) = 1
        /\ ax.scatter[1].x =
              [i \in 1..Len(Files[last.w.file].rows) |-> Files[last.w.file].rows[i][1]]
        /\ \A c \in OtherAxes(last.w) :
              /\ \A k \in 1..Len(ax.lines) :
                    ax.lines[k].x[1] # Converted(Linspace[1], c[2], c[1])
              /\ \A k \in 1..Len(ax.vlines) :
                    ax.vlines[k].x #
                        MarkerAt(RatioOf(ax.vlines[k].label), c[1],
                                 SelField(last.fn, last.w), c[2])

\* The overlay next to a curve and a marker plotted against frequency in Hz.
C14_OverlayInHz ==
    /\ Requested
    /\ last.w.unit = 3
    /\ last.w.radio2
    /\ Len(ax.scatter) = 1
    /\ ax.scatter[1].x[1] = Rat(1, 10)
    /\ ax.lines # <<>>
    /\ ax.vlines # <<>>

\* C15: plot_ready is false after __init__; a step makes it true only as the
\* end of an update_plot_N or update_plot_C that ran to completion (the canvas
\* drawn from the finished axes); a call that an exception ended leaves it as
\* it was; and no step makes it false again.
C15_PlotReadyFlag ==
    /\ ~plot_ready
    /\ [][/\ plot_ready => plot_ready'
          /\ (~plot_ready /\ plot_ready') =>
                (last'.out = "finished" /\ canvas' = ax' /\ ax'.legend)
          /\ last'.out = "raised" => plot_ready' = plot_ready]_vars

\* A call that the overlay ended, before any call ran to its end: the curve is
\* on the axes and plot_ready is still false.
C15_FailedBeforeReady ==
    /\ last.out = "raised"
    /\ ax.lines # <<>>
    /\ ~plot_ready

\* The current tab's handler and widgets.
CurrentFn == IF tab = 0 THEN "N" ELSE "C"
CurrentWidgets == IF tab = 0 THEN wN ELSE wC

\* This step is a resizeEvent that started a render.
ResizeRendered ==
    /\ last'.by = "resize"
    /\ Len(stack') >= Len(stack)
    /\ <<last, ax, stack>>' # <<last, ax, stack>>

\* C16: a resizeEvent starts a render only while plot_ready is true, and then
\* one render, of the tab that is current at the event with the values its
\* widgets have then, whichever tab's button set plot_ready, so that the plot
\* shown after the resize is that tab's finished plot of its current
\* selections.
C16_ResizeDispatch ==
    [][ResizeRendered =>
          /\ plot_ready
          /\ last'.fn = CurrentFn
          /\ last'.w = CurrentWidgets
          /\ Len(stack') <= Len(stack) + 1
          /\ Shown(ax') = Shown(Fresh(CurrentFn, CurrentWidgets).ax)
          /\ last'.out = "finished"
          /\ canvas' = ax']_vars

\* C17: for a field # 0 and any labels selected, "Select all" included, the
\* call draws as many markers as labels are selected and no exception ends
\* it: the colour index k + 1 of the k-th label (0-based) is an index of the
\* palette.
C17_EveryMarkerDrawn ==
    (Requested /\ ~ZeroField /\ ~OverlayOn) =>
        /\ last.out # "raised"
        /\ Len(ax.vlines) = Len(last.w.gyro)
        /\ \A k \in 0..(Len(last.w.gyro) - 1) : k + 1 <= NColors - 1

\* The resonance time tau* = 1 / (2 * g * B * 1e-3), in microseconds.
ResonanceTau(g, B) ==
    RatDiv(One, RatMul(RatMul(Two, g), RatMul(B, Rat(1, 1000))))

\* C18: markers and curve share one coordinate system: for a field B # 0,
\* every ratio g of the table and the unit index u and domain of the request
\* (each of the four units and both domains is requested), the position update_plot_N and update_plot_C compute for a marker is the x the
\* axis conversion of the curve gives the resonance time tau*, that is
\* tau* * m[u] against time and (1 / (2 * tau*)) / m[u] against frequency, and
\* every marker on the axes stands at that x of its label's ratio on the axis
\* the curves of the same axes are plotted on.
C18_SharedCoordinates ==
    (Requested /\ ~ZeroField) =>
        /\ \A j \in 1..Len(gyro_table) :
              /\ MarkerPos_N(gyro_table[j].value, last.w.unit,
                             SelField(last.fn, last.w), last.w.radio2)
                    = Converted(ResonanceTau(gyro_table[j].value,
                                             SelField(last.fn, last.w)),
                                last.w.radio2, last.w.unit)
              /\ MarkerPos_C(gyro_table[j].value, last.w.unit,
                             SelField(last.fn, last.w), last.w.radio2)
                    = Converted(ResonanceTau(gyro_table[j].value,
                                             SelField(last.fn, last.w)),
                                last.w.radio2, last.w.unit)
        /\ \A k \in 1..Len(ax.vlines) :
              ax.vlines[k].x =
                  Converted(ResonanceTau(RatioOf(ax.vlines[k].label),
                                         SelField(last.fn, last.w)),
                            last.w.radio2, last.w.unit)
        /\ \A k \in 1..Len(ax.lines) : \A i \in 1..Len(Linspace) :
              ax.lines[k].x[i] = Converted(Linspace[i], last.w.radio2, last.w.unit)

\* A 15N curve and a marker on one axis in Hz.
C18_CurveAndMarkerHz ==
    /\ last.fn = "N"
    /\ last.w.radio2
    /\ last.w.unit = 3
    /\ ~ZeroField
    /\ Len(ax.lines) = 1
    /\ Len(ax.vlines) >= 1

====
